---- MODULE Spec2Model ----
(***************************************************************************)
(* WorkflowProcessor (evolving_agents/workflow/workflow_processor.py).     *)
(*                                                                         *)
(* The adapter holds one field, self.agent.  process_workflow is a         *)
(* coroutine with a single suspension point, the await of                  *)
(* self.agent.run(prompt) on line 82: everything from the entry of the     *)
(* coroutine to that await runs without yielding to the event loop, and    *)
(* everything after it runs without yielding again.  Each caller is        *)
(* therefore at one of four positions: idle, awaiting the backend,         *)
(* returned (a dict was handed back) or raised (an exception left the      *)
(* coroutine).                                                             *)
(*                                                                         *)
(* Texts are sequences of lines, a line is a sequence of string tokens.    *)
(***************************************************************************)
EXTENDS Integers, Sequences, FiniteSets, TLC

VARIABLES
    agent,      \* self.agent: "None" or the name of a backend object
    calls       \* per caller: the position and the locals of its process_workflow call

vars == <<agent, calls>>

\* Longest document text, in lines, the callers pass.
MaxLines == 2

\* The callers that may run process_workflow concurrently on the one adapter.
Callers == {"c1", "c2"}

None == "None"

\* Backend objects handed to __init__ / set_agent.
Backends == {"echo", "strict"}

(***************************************************************************)
(* Python values                                                           *)
(***************************************************************************)
NoneValue == [type |-> "NoneType", items |-> <<>>]

Dict(items) == [type |-> "dict", items |-> items]

\* Lines a document text is made of: two key/value lines and an unclosed
\* flow mapping, which the YAML parser rejects.
ScenarioLine == <<"scenario_name", ":", "Refund">>

DomainLine == <<"domain", ":", "finance">>

BrokenLine == <<"{">>

DocLines == {ScenarioLine, DomainLine, BrokenLine}

RECURSIVE SeqsUpTo(_, _)
SeqsUpTo(S, n) ==
    IF n = 0 THEN {<<>>}
    ELSE LET shorter == SeqsUpTo(S, n - 1)
         IN  shorter \cup {Append(s, x) : s \in {t \in shorter : Len(t) = n - 1}, x \in S}

\* The document texts the callers pass (workflow_yaml).
Documents == SeqsUpTo(DocLines, MaxLines)

\* Values a parameter may carry: a JSON number, and an object json cannot encode.
IntValue == [type |-> "int", repr |-> "50"]

SetValue == [type |-> "set", repr |-> "set()"]

ParamValues == {IntValue, SetValue}

ParamKeys == {"amount"}

\* All insertion-ordered dicts over ParamKeys: sequences of items with distinct keys.
ParamDicts ==
    {Dict(s) : s \in {t \in SeqsUpTo([key : ParamKeys, value : ParamValues], Cardinality(ParamKeys)) :
                         \A i, j \in 1..Len(t) : t[i].key = t[j].key => i = j}}

\* The params argument: omitted (None) or a dict.
Parameters == {NoneValue} \cup ParamDicts

(***************************************************************************)
(* yaml.safe_load (line 49)                                                *)
(***************************************************************************)
IsPair(line) == Len(line) = 3 /\ line[2] = ":"

YAMLError == "while parsing a flow node: expected the node content, but found '<stream end>'"

\* The mapping a block of key/value lines denotes; a repeated key keeps its last value.
RECURSIVE LoadPairs(_)
LoadPairs(lines) ==
    IF lines = <<>> THEN <<>>
    ELSE LET n == Len(lines)
             rest == LoadPairs(SubSeq(lines, 1, n - 1))
             k == lines[n][1]
         IN  [x \in (DOMAIN rest) \cup {k} |-> IF x = k THEN lines[n][3] ELSE rest[x]]

\* yaml.safe_load: an empty stream is None, a block of key/value lines is a
\* dict, anything else in these texts is a syntax error.
safe_load(text) ==
    IF text = <<>> THEN [ok |-> TRUE, value |-> NoneValue, diag |-> ""]
    ELSE IF \A i \in 1..Len(text) : IsPair(text[i])
         THEN [ok |-> TRUE, value |-> Dict(LoadPairs(text)), diag |-> ""]
         ELSE [ok |-> FALSE, value |-> NoneValue, diag |-> YAMLError]

(***************************************************************************)
(* json.dumps(params, indent=2) (line 65)                                  *)
(***************************************************************************)
JSONTypes == {"int", "str", "NoneType"}

Serializable(params) ==
    \A i \in 1..Len(params.items) : params.items[i].value.type \in JSONTypes

\* One line per item, in insertion order, between the braces.
dumps(params) ==
    <<<<"{">>>>
    \o [i \in 1..Len(params.items) |->
           <<"  ", "\"", params.items[i].key, "\"", ": ", params.items[i].value.repr>>]
    \o <<<<"}">>>>

(***************************************************************************)
(* The backend: IAgent.run(prompt) and response.result.text                *)
(***************************************************************************)
ParametersHeader == <<"Parameters:">>

\* "echo" answers "done" to every instruction.  "strict" raises when the
\* instruction has no parameters block and otherwise answers with the domain
\* statement it was given.  Both are deterministic.
agent_run(backend, prompt) ==
    IF backend = None
    THEN [raises |-> TRUE, exc |-> "AttributeError", text |-> ""]
    ELSE IF backend = "echo"
    THEN [raises |-> FALSE, exc |-> "", text |-> "done"]
    ELSE IF \E i \in 1..Len(prompt) : prompt[i] = ParametersHeader
         THEN [raises |-> FALSE, exc |-> "", text |-> prompt[2][2]]
         ELSE [raises |-> TRUE, exc |-> "BackendError", text |-> ""]

(***************************************************************************)
(* process_workflow, up to the await                                       *)
(***************************************************************************)
\* Variant: the guard of line 43 never fires.
Unbound_never(a) == FALSE

\* line 43: not self.agent
Unbound(a) == a = None

\* line 44
NoAgentOutcome ==
    [status |-> "error", message |-> <<"No agent set for workflow processing">>]

\* Variant: the except clause reports a fixed text and drops str(e).
ParseErrorOutcome_generic(diag) ==
    [status |-> "error", message |-> <<"Error parsing workflow YAML">>]

\* lines 51-53
ParseErrorOutcome(diag) ==
    [status |-> "error", message |-> <<"Error parsing workflow YAML: ", diag>>]

\* Variant: the metadata is never read from the document.
get_default_only(workflow, key, default) == default

\* dict.get(key, default), lines 56-58
get(workflow, key, default) ==
    IF key \in DOMAIN workflow.items THEN workflow.items[key] ELSE default

\* bool(params), line 64
Truthy(params) == params.type = "dict" /\ Len(params.items) > 0

\* Variant: "if params is not None" in place of "if params".
params_section_if_given(params) ==
    IF params.type = "dict" THEN <<ParametersHeader>> \o dumps(params) ELSE <<>>

\* lines 63-65
params_section(params) ==
    IF Truthy(params) THEN <<ParametersHeader>> \o dumps(params) ELSE <<>>

DomainStatement(domain) == <<"I need to process this workflow YAML for domain '", domain, "'">>

\* The code fence around the document (three backquotes, written ~~~ here).
FenceOpen == <<"~~~yaml">>

FenceClose == <<"~~~">>

StepDirectives ==
    << <<"Please execute this workflow step by step and provide the results for each step.">>,
       <<"For each step, indicate the step type, what action was performed, and the outcome.">>,
       <<"When executing tools or agents, show the input and output for each execution.">> >>

PlaceholderDirective ==
    <<"When you see placeholders like {params.some_variable}, replace them with the corresponding value from the parameters.">>

\* Variant: the fenced document is placed after the step directives.
BuildPrompt_document_last(domain, section, workflow_yaml) ==
    << <<>>, DomainStatement(domain) >> \o section \o << <<":">>, <<>> >>
    \o StepDirectives
    \o << <<>>, FenceOpen >> \o workflow_yaml \o << FenceClose, <<>>, PlaceholderDirective >>

\* Variant: the instruction mentions that the adapter has completed a call before.
BuildPrompt_remembering(domain, section, workflow_yaml) ==
    << <<>>, DomainStatement(domain) >> \o section \o << <<":">>, <<>>, FenceOpen >>
    \o workflow_yaml
    \o << FenceClose, <<>> >> \o StepDirectives \o << <<>>, PlaceholderDirective >>
    \o (IF \E c \in Callers : calls[c].pc \in {"returned", "raised"}
        THEN << <<"This workflow has been processed before.">> >>
        ELSE <<>>)

\* The f-string of lines 68-80.
BuildPrompt(domain, section, workflow_yaml) ==
    << <<>>, DomainStatement(domain) >> \o section \o << <<":">>, <<>>, FenceOpen >>
    \o workflow_yaml
    \o << FenceClose, <<>> >> \o StepDirectives \o << <<>>, PlaceholderDirective >>

NoOutcome == [status |-> "none"]

Idle ==
    [pc |-> "idle", workflow_yaml |-> <<>>, params |-> NoneValue, checked |-> None,
     invoked |-> None, runs |-> 0, scenario_name |-> "", domain |-> "", prompt |-> <<>>,
     outcome |-> NoOutcome, exc |-> "", overlapped |-> FALSE]

Returned(call, outcome) == [call EXCEPT !.pc = "returned", !.outcome = outcome]

Raised(call, exc) == [call EXCEPT !.pc = "raised", !.exc = exc]

\* Lines 43-82 for one call: the state of the call when control first leaves the
\* coroutine (by return, by an exception, or at the await).
Enter(a, workflow_yaml, params) ==
    LET call == [Idle EXCEPT !.workflow_yaml = workflow_yaml, !.params = params, !.checked = a]
        loaded == safe_load(workflow_yaml)
        workflow == loaded.value
    IN  IF Unbound(a) THEN Returned(call, NoAgentOutcome)
        ELSE IF ~loaded.ok THEN Returned(call, ParseErrorOutcome(loaded.diag))
        ELSE IF workflow.type # "dict" THEN Raised(call, "AttributeError")
        ELSE LET scenario_name == get(workflow, "scenario_name", "Unnamed Scenario")
                 domain == get(workflow, "domain", "general")
             IN  IF Truthy(params) /\ ~Serializable(params) THEN Raised(call, "TypeError")
                 ELSE [call EXCEPT !.pc = "awaiting",
                                   !.scenario_name = scenario_name,
                                   !.domain = domain,
                                   !.prompt = BuildPrompt(domain, params_section(params), workflow_yaml),
                                   !.invoked = a,
                                   !.runs = 1]

\* lines 85-91
SuccessOutcome(name, dom, text) ==
    [status |-> "success", scenario_name |-> name, domain |-> dom,
     result |-> text,
     message |-> <<"Successfully executed workflow '", name, "' using agent">>]

\* Variant: the await is wrapped in try/except and a failure becomes an error Outcome.
Leave_caught(call) ==
    LET response == agent_run(call.invoked, call.prompt)
    IN  IF response.raises
        THEN Returned(call, [status |-> "error",
                             message |-> <<"Backend execution failed: ", response.exc>>])
        ELSE Returned(call, SuccessOutcome(call.scenario_name, call.domain, response.text))

\* Variant: scenario_name and domain are kept on the adapter, so a call resumed
\* while another is suspended reports the metadata of the other.
Leave_shared(call) ==
    LET response == agent_run(call.invoked, call.prompt)
        others == {d \in Callers : calls[d].pc = "awaiting" /\ calls[d] # call}
        latest == IF others = {} THEN call ELSE calls[CHOOSE d \in others : TRUE]
    IN  IF response.raises THEN Raised(call, response.exc)
        ELSE Returned(call, SuccessOutcome(latest.scenario_name, latest.domain, response.text))

\* Variant: the answer is taken from whichever backend is bound when the call resumes.
Leave_rebound(call) ==
    LET response == agent_run(agent, call.prompt)
    IN  IF response.raises THEN Raised(call, response.exc)
        ELSE Returned(call, SuccessOutcome(call.scenario_name, call.domain, response.text))

\* Lines 82-91 for one call: the await ends, with the backend's answer or its exception.
Leave(call) ==
    LET response == agent_run(call.invoked, call.prompt)
    IN  IF response.raises THEN Raised(call, response.exc)
        ELSE Returned(call, SuccessOutcome(call.scenario_name, call.domain, response.text))

(***************************************************************************)
(* Operations                                                              *)
(***************************************************************************)
\* __init__ (lines 18-26): the agent is given or left None.  Nobody has called
\* yet; each caller holds the arguments it will pass to process_workflow.
Init ==
    /\ agent \in Backends \cup {None}
    /\ calls \in [Callers -> {[Idle EXCEPT !.workflow_yaml = y, !.params = p] :
                                 y \in Documents, p \in Parameters}]

\* set_agent (lines 28-30).  Binding the agent that is already bound changes
\* nothing, so only the rebindings to another agent are steps.
set_agent ==
    /\ \E a \in Backends \ {agent} : agent' = a
    /\ UNCHANGED calls

\* A caller starts process_workflow(workflow_yaml, params); it runs to its first
\* return, raise or await.
process_workflow(c) ==
    /\ calls[c].pc # "awaiting"
    /\ calls' = [calls EXCEPT ![c] = Enter(agent, calls[c].workflow_yaml, calls[c].params)]
    /\ UNCHANGED agent

\* The backend call of a suspended caller completes and the coroutine runs to its end.
resume(c) ==
    /\ calls[c].pc = "awaiting"
    /\ calls' = [calls EXCEPT ![c] =
                    [Leave(calls[c]) EXCEPT !.overlapped =
                        \E d \in Callers \ {c} : calls[d].pc = "awaiting"]]
    /\ UNCHANGED agent

Next ==
    \/ set_agent
    \/ \E c \in Callers : process_workflow(c)
    \/ \E c \in Callers : resume(c)

Spec == Init /\ [][Next]_vars

(***************************************************************************)
(* Properties                                                              *)
(***************************************************************************)
Started(call) == call.pc # "idle"

Finished(call) == call.pc \in {"returned", "raised"}

Succeeded(call) == call.pc = "returned" /\ call.outcome.status = "success"

\* The call reached line 82 and handed an instruction to a backend.
Sent(call) == call.runs >= 1

\* A top-level field of the document, or the default when the document lacks it.
FieldOrDefault(text, key, default) ==
    LET fields == safe_load(text).value.items
    IN  IF key \in DOMAIN fields THEN fields[key] ELSE default

WellFormed(text) == LET loaded == safe_load(text) IN loaded.ok /\ loaded.value.type = "dict"

Indices(prompt, segment) == {i \in 1..Len(prompt) : prompt[i] = segment}

\* C1: a call on a document that parses to a mapping, made with a backend bound
\* and whose backend call returned, ends with a success Outcome whose
\* scenario_name and domain are the document's top-level fields, or
\* "Unnamed Scenario" and "general" where the document has no such field.
C1_SuccessCarriesDocumentFields ==
    \A c \in Callers :
        LET call == calls[c]
        IN  ( /\ Finished(call)
              /\ call.checked # None
              /\ Sent(call)
              /\ WellFormed(call.workflow_yaml)
              /\ ~agent_run(call.invoked, call.prompt).raises )
            => /\ call.pc = "returned"
               /\ call.outcome.status = "success"
               /\ call.outcome.scenario_name =
                      FieldOrDefault(call.workflow_yaml, "scenario_name", "Unnamed Scenario")
               /\ call.outcome.domain = FieldOrDefault(call.workflow_yaml, "domain", "general")

\* A success that restates a scenario name the document gives and defaults the domain,
\* and one that defaults the scenario name and restates the domain.
C1_Witness ==
    \E c, d \in Callers :
        /\ Succeeded(calls[c])
        /\ calls[c].workflow_yaml = <<ScenarioLine>>
        /\ calls[c].outcome.scenario_name = "Refund"
        /\ calls[c].outcome.domain = "general"
        /\ Succeeded(calls[d])
        /\ calls[d].workflow_yaml = <<DomainLine>>
        /\ calls[d].outcome.scenario_name = "Unnamed Scenario"
        /\ calls[d].outcome.domain = "finance"

\* C2: a call made while no backend is bound returns exactly the error Outcome
\* "No agent set for workflow processing", whatever the document and the
\* parameters; it raises nothing and invokes no backend.
C2_UnboundReturnsNoAgentError ==
    \A c \in Callers :
        LET call == calls[c]
        IN  (Started(call) /\ call.checked = None)
            => /\ call.pc = "returned"
               /\ call.outcome =
                      [status |-> "error", message |-> <<"No agent set for workflow processing">>]
               /\ call.exc = ""
               /\ call.runs = 0
               /\ call.invoked = None

\* Unbound calls on a broken document and on a well-formed one with parameters.
C2_Witness ==
    \E c, d \in Callers :
        /\ calls[c].pc = "returned" /\ calls[c].checked = None
        /\ ~safe_load(calls[c].workflow_yaml).ok
        /\ calls[d].pc = "returned" /\ calls[d].checked = None
        /\ WellFormed(calls[d].workflow_yaml)
        /\ Truthy(calls[d].params)

\* C3: with a backend bound, a call on a syntactically invalid document returns
\* an error Outcome whose message contains the parser's diagnostic; nothing is
\* raised and the backend is not invoked.
C3_ParseErrorIsReturned ==
    \A c \in Callers :
        LET call == calls[c]
            loaded == safe_load(call.workflow_yaml)
        IN  (Started(call) /\ call.checked # None /\ ~loaded.ok)
            => /\ call.pc = "returned"
               /\ call.outcome.status = "error"
               /\ \E i \in 1..Len(call.outcome.message) : call.outcome.message[i] = loaded.diag
               /\ call.exc = ""
               /\ call.runs = 0
               /\ call.invoked = None

C3_Witness ==
    \E c \in Callers :
        /\ calls[c].pc = "returned"
        /\ calls[c].checked \in Backends
        /\ calls[c].workflow_yaml = <<ScenarioLine, BrokenLine>>
        /\ calls[c].outcome.status = "error"

\* C4: every call ends by handing the caller a success Outcome or an error
\* Outcome; no call ends in any other way.
C4_EveryCallReturnsAnOutcome ==
    \A c \in Callers :
        Finished(calls[c])
        => /\ calls[c].pc = "returned"
           /\ calls[c].outcome.status \in {"success", "error"}

\* C5: when the backend's run raises, the exception leaves process_workflow
\* unchanged: the call ends raised with the backend's exception, no Outcome is
\* returned, and the backend was called once only.
C5_BackendFailurePropagates ==
    \A c \in Callers :
        LET call == calls[c]
            response == agent_run(call.invoked, call.prompt)
        IN  (Finished(call) /\ Sent(call) /\ response.raises)
            => /\ call.pc = "raised"
               /\ call.exc = response.exc
               /\ call.outcome = NoOutcome
               /\ call.runs = 1

C5_Witness ==
    \E c \in Callers :
        /\ calls[c].pc = "raised"
        /\ calls[c].invoked = "strict"
        /\ calls[c].exc = "BackendError"
        /\ calls[c].runs = 1

\* C6: the instruction sent to the backend has a parameters section exactly
\* when params is a non-empty dict (none for None and for {}), and the section
\* then renders every key of params.
C6_ParametersSectionIffNonEmpty ==
    \A c \in Callers :
        LET call == calls[c]
            items == call.params.items
            headers == Indices(call.prompt, ParametersHeader)
        IN  Sent(call)
            => /\ (headers # {}) <=> (call.params.type = "dict" /\ Len(items) > 0)
               /\ \A h \in headers : \A i \in 1..Len(items) :
                      \E j \in (h + 1)..(h + 1 + Len(items)) :
                          /\ j <= Len(call.prompt)
                          /\ \E k \in 1..Len(call.prompt[j]) : call.prompt[j][k] = items[i].key

\* One instruction with a parameters section, one sent for {} and one for None without.
C6_Witness ==
    /\ \E c \in Callers :
           /\ Sent(calls[c]) /\ Truthy(calls[c].params)
           /\ Indices(calls[c].prompt, ParametersHeader) # {}
    /\ \E c \in Callers :
           /\ Sent(calls[c]) /\ calls[c].params \in {Dict(<<>>), NoneValue}
           /\ Indices(calls[c].prompt, ParametersHeader) = {}

DirectiveSegments == {StepDirectives[i] : i \in 1..Len(StepDirectives)} \cup {PlaceholderDirective}

\* C7: the document text passed to the call is a contiguous part of the
\* instruction, unmodified, after the domain statement and the parameters
\* block (when there is one) and before every directive.
C7_DocumentVerbatimInInstruction ==
    \A c \in Callers :
        LET call == calls[c]
            prompt == call.prompt
            text == call.workflow_yaml
        IN  Sent(call)
            => \E i \in 1..Len(prompt) :
                   /\ i + Len(text) - 1 <= Len(prompt)
                   /\ SubSeq(prompt, i, i + Len(text) - 1) = text
                   /\ \E j \in 1..(i - 1) : prompt[j] = DomainStatement(call.domain)
                   /\ \A h \in Indices(prompt, ParametersHeader) :
                          h + Len(dumps(call.params)) < i
                   /\ \A j \in 1..Len(prompt) :
                          prompt[j] \in DirectiveSegments => j >= i + Len(text)
                   /\ \A seg \in DirectiveSegments : Indices(prompt, seg) # {}

\* An instruction with a parameters block, sent for a document that repeats a key.
C7_Witness ==
    \E c \in Callers :
        /\ Sent(calls[c])
        /\ calls[c].workflow_yaml = <<DomainLine, DomainLine>>
        /\ Truthy(calls[c].params)

SameArguments(a, b) ==
    /\ a.workflow_yaml = b.workflow_yaml
    /\ a.params = b.params
    /\ a.checked = b.checked

\* C8: two calls with the same document text, the same parameters and the same
\* (deterministic) backend send the same instruction and end the same way,
\* with equal Outcomes, in whatever order and however often calls were made.
C8_SameArgumentsSameOutcome ==
    \A c, d \in Callers :
        LET a == calls[c]
            b == calls[d]
        IN  (Started(a) /\ Started(b) /\ SameArguments(a, b))
            => /\ a.runs = b.runs
               /\ a.prompt = b.prompt
               /\ (Finished(a) /\ Finished(b))
                  => (a.pc = b.pc /\ a.outcome = b.outcome /\ a.exc = b.exc)

\* Two callers got equal successes from the prompt-reading backend for equal
\* arguments, one while the other was suspended and one not.
C8_Witness ==
    \E c, d \in Callers :
        /\ c # d
        /\ SameArguments(calls[c], calls[d])
        /\ Succeeded(calls[c]) /\ Succeeded(calls[d])
        /\ calls[c].checked = "strict"
        /\ calls[c].overlapped /\ ~calls[d].overlapped

\* C9: a call that completed while another call was suspended at the backend
\* carries the scenario_name and domain of its own document and the text the
\* backend returned for its own instruction.
C9_ConcurrentCallsIndependent ==
    \A c \in Callers :
        LET call == calls[c]
        IN  (Succeeded(call) /\ call.overlapped)
            => /\ call.outcome.scenario_name =
                      FieldOrDefault(call.workflow_yaml, "scenario_name", "Unnamed Scenario")
               /\ call.outcome.domain = FieldOrDefault(call.workflow_yaml, "domain", "general")
               /\ call.outcome.result = agent_run(call.invoked, call.prompt).text
               /\ call.prompt =
                      BuildPrompt(FieldOrDefault(call.workflow_yaml, "domain", "general"),
                                  params_section(call.params), call.workflow_yaml)

\* A call returned while the other caller, with another scenario, another domain
\* and another backend answer pending, was still suspended.
C9_Witness ==
    \E c, d \in Callers :
        /\ Succeeded(calls[c]) /\ calls[c].overlapped
        /\ calls[d].pc = "awaiting"
        /\ calls[c].outcome.scenario_name # calls[d].scenario_name
        /\ calls[c].outcome.domain # calls[d].domain
        /\ ~agent_run(calls[d].invoked, calls[d].prompt).raises
        /\ calls[c].outcome.result # agent_run(calls[d].invoked, calls[d].prompt).text

\* The backend a call invokes is the one bound at its line-43 check, it is
\* invoked once, and the answer a successful call returns is that backend's.
InvokesCheckedBackendOnce ==
    \A c \in Callers :
        LET call == calls[c]
        IN  /\ Sent(call) => (call.invoked = call.checked /\ call.checked # None /\ call.runs = 1)
            /\ Succeeded(call) =>
                   (Sent(call) /\ call.outcome.result = agent_run(call.checked, call.prompt).text)

\* C10: the backend a call invokes is the one bound when its no-backend check
\* passed, invoked exactly once per successful call; a set_agent while the call
\* is suspended does not change which backend answers it; and no step of
\* process_workflow changes the adapter's binding.
C10_BindingReadAtCheck ==
    /\ []InvokesCheckedBackendOnce
    /\ [][calls' # calls => agent' = agent]_vars

\* A call started under the new binding has succeeded while an earlier call,
\* suspended at the backend bound before the set_agent, is still pending.
C10_Witness ==
    \E c, d \in Callers :
        /\ calls[c].pc = "awaiting"
        /\ calls[c].invoked # agent
        /\ Succeeded(calls[d])
        /\ calls[d].checked = agent
        /\ calls[d].overlapped

====
